---- MODULE Spec2Model ----
(***************************************************************************)
(* Expense store of src/main.py: one SQLite table `expenses` and the five  *)
(* tools add_expense, listing_expenses, update_expense, delete_expense and *)
(* summarizing_expenses.                                                   *)
(*                                                                         *)
(* TEXT values that the code compares (dates) are sequences of digit       *)
(* characters, compared bytewise as SQLite's BINARY collation does.        *)
(* An optional argument is a set: {} is None, {v} is the value v.          *)
(*                                                                         *)
(* store is the content of the table, seq the AUTOINCREMENT counter kept   *)
(* in sqlite_sequence. issued and deleted record the ids that add_expense  *)
(* has returned and that delete_expense has reported deleted. pc, req and  *)
(* res are, per concurrent caller, the position in a call, its arguments   *)
(* and the dict it returned last.                                          *)
(***************************************************************************)
EXTENDS Integers, Sequences, FiniteSets, TLC

VARIABLES store, seq, issued, deleted, pc, req, res

vars == <<store, seq, issued, deleted, pc, req, res>>

-----------------------------------------------------------------------------
(* Bounds and input domains *)

MaxId == 2

NumProcs == 2

Ids == 1..MaxId

Procs == 1..NumProcs

Amounts == {-1, 1}

Categories == {"food", "Food"}

SubCategories == {"", "gas"}

Dates == {<<1, 0>>, <<2>>}

QueryDates == {<<1>>, <<1, 0>>, <<2>>}

Times == {1, 2}

Opt(S) == {{}} \cup {{x} : x \in S}

Val(o) == CHOOSE x \in o : TRUE

-----------------------------------------------------------------------------
(* SQLite primitives *)

RECURSIVE StrLess(_, _)
StrLess(a, b) ==
    IF Len(a) = 0 THEN Len(b) > 0
    ELSE IF Len(b) = 0 THEN FALSE
    ELSE IF Head(a) # Head(b) THEN Head(a) < Head(b)
    ELSE StrLess(Tail(a), Tail(b))

StrLE(a, b) == a = b \/ StrLess(a, b)

(* Faulty variant: a range that leaves out its upper end *)
BetweenHalfOpen(x, lo, hi) == StrLE(lo, x) /\ StrLess(x, hi)

(* x BETWEEN lo AND hi: x >= lo AND x <= hi *)
Between(x, lo, hi) == StrLE(lo, x) /\ StrLE(x, hi)

RECURSIVE SumAmount(_)
SumAmount(rows) ==
    IF rows = {} THEN 0
    ELSE LET r == CHOOSE x \in rows : TRUE
         IN  r.amount + SumAmount(rows \ {r})

SqlSum(rows) == IF rows = {} THEN {} ELSE {SumAmount(rows)}

MaxRowid(rows) ==
    IF rows = {} THEN 0
    ELSE CHOOSE m \in {r.id : r \in rows} : \A r \in rows : r.id <= m

Max2(a, b) == IF a >= b THEN a ELSE b

(* Faulty variant: INTEGER PRIMARY KEY without AUTOINCREMENT *)
NextRowidNoAutoincrement(rows, s) == MaxRowid(rows) + 1

(* AUTOINCREMENT: one more than the largest rowid the table has ever held *)
NextRowid(rows, s) == Max2(s, MaxRowid(rows)) + 1

SelectById(rows, id) == {r \in rows : r.id = id}

DeleteById(rows, id) == {r \in rows : r.id # id}

RECURSIVE Perms(_)
Perms(S) ==
    IF S = {} THEN {<<>>}
    ELSE UNION {{<<x>> \o p : p \in Perms(S \ {x})} : x \in S}

(* Faulty variant: ascending order *)
OrderByDateAsc(rows) ==
    {q \in Perms(rows) :
        \A i \in 1..Len(q) : \A j \in 1..Len(q) :
            i < j => ~StrLess(q[j].date, q[i].date)}

(* Every order ORDER BY date DESC may return: rows of equal date in any order *)
OrderByDateDesc(rows) ==
    {q \in Perms(rows) :
        \A i \in 1..Len(q) : \A j \in 1..Len(q) :
            i < j => ~StrLess(q[i].date, q[j].date)}

-----------------------------------------------------------------------------
(* Rows and results *)

Lower(c) == IF c = "Food" THEN "food" ELSE c

(* Faulty variant: category lowercased on write *)
NewRowLower(id, amount, category, sub_category, date, now) ==
    [id |-> id, amount |-> amount, category |-> Lower(category),
     sub_category |-> sub_category, date |-> date, created_at |-> now]

NewRow(id, amount, category, sub_category, date, now) ==
    [id |-> id, amount |-> amount, category |-> category,
     sub_category |-> sub_category, date |-> date, created_at |-> now]

Provided(o) == o # {}

SetFields(amount, category, sub_category, date) ==
    (IF Provided(amount) THEN <<"amount = ?">> ELSE <<>>)
    \o (IF Provided(category) THEN <<"category = ?">> ELSE <<>>)
    \o (IF Provided(sub_category) THEN <<"sub_category = ?">> ELSE <<>>)
    \o (IF Provided(date) THEN <<"date = ?">> ELSE <<>>)

(* Faulty variant: the update also rewrites created_at *)
UpdateRowTouch(r, amount, category, sub_category, date) ==
    [r EXCEPT !.amount = IF Provided(amount) THEN Val(amount) ELSE @,
              !.category = IF Provided(category) THEN Val(category) ELSE @,
              !.sub_category = IF Provided(sub_category) THEN Val(sub_category) ELSE @,
              !.date = IF Provided(date) THEN Val(date) ELSE @,
              !.created_at = 2]

UpdateRow(r, amount, category, sub_category, date) ==
    [r EXCEPT !.amount = IF Provided(amount) THEN Val(amount) ELSE @,
              !.category = IF Provided(category) THEN Val(category) ELSE @,
              !.sub_category = IF Provided(sub_category) THEN Val(sub_category) ELSE @,
              !.date = IF Provided(date) THEN Val(date) ELSE @]

(* Faulty variant: UPDATE without its WHERE clause *)
UpdateByIdNoWhere(rows, id, amount, category, sub_category, date) ==
    {UpdateRow(r, amount, category, sub_category, date) : r \in rows}

UpdateById(rows, id, amount, category, sub_category, date) ==
    {IF r.id = id THEN UpdateRow(r, amount, category, sub_category, date) ELSE r :
        r \in rows}

NotFoundMessage(id) == <<"Expense", id, "not found">>

NoFieldsMessage == <<"No fields provided to update">>

DeletedMessage == <<"Expense deleted successfully">>

NotFound(action, id) ==
    [status |-> "error", action |-> action, message |-> NotFoundMessage(id)]

NoFields ==
    [status |-> "error", action |-> "update", message |-> NoFieldsMessage]

UpdateOk(id, fields) ==
    [status |-> "success", action |-> "update", expense_id |-> id,
     updated_fields |-> fields]

DeleteOk(id) ==
    [status |-> "success", action |-> "delete", expense_id |-> id,
     message |-> DeletedMessage]

(* Python's `x or default`: default when x is None or 0 *)
PyOr(o, default) == IF o = {} \/ Val(o) = 0 THEN default ELSE Val(o)

NoResult == [status |-> "none", action |-> "none"]

-----------------------------------------------------------------------------
(* The tools as functions of (table, sqlite_sequence, request): the table and *)
(* sequence after the call, and the dict returned                            *)

AddExpenseCall(rows, s, amount, category, date, sub_category, now) ==
    LET expense_id == NextRowid(rows, s) IN
    [store |-> rows \cup
                 {NewRow(expense_id, amount, category, sub_category, date, now)},
     seq |-> Max2(s, expense_id),
     result |-> [status |-> "success", action |-> "add",
                 expense_id |-> expense_id, amount |-> amount,
                 category |-> category, sub_category |-> sub_category,
                 date |-> date]]

ListingExpensesCall(rows, s) ==
    {[store |-> rows, seq |-> s,
      result |-> [status |-> "success", action |-> "list",
                  count |-> Len(q), expenses |-> q]] :
        q \in OrderByDateDesc(rows)}

(* Faulty variant: the fields check before the existence check *)
UpdateFieldsFirst(rows, s, expense_id, amount, category, sub_category, date) ==
    IF SetFields(amount, category, sub_category, date) = <<>>
    THEN [store |-> rows, seq |-> s, result |-> NoFields]
    ELSE IF SelectById(rows, expense_id) = {}
    THEN [store |-> rows, seq |-> s, result |-> NotFound("update", expense_id)]
    ELSE [store |-> UpdateById(rows, expense_id, amount, category,
                               sub_category, date),
          seq |-> s,
          result |-> UpdateOk(expense_id,
                         SetFields(amount, category, sub_category, date))]

UpdateExpenseCall(rows, s, expense_id, amount, category, sub_category, date) ==
    IF SelectById(rows, expense_id) = {}
    THEN [store |-> rows, seq |-> s, result |-> NotFound("update", expense_id)]
    ELSE IF SetFields(amount, category, sub_category, date) = <<>>
    THEN [store |-> rows, seq |-> s, result |-> NoFields]
    ELSE [store |-> UpdateById(rows, expense_id, amount, category,
                               sub_category, date),
          seq |-> s,
          result |-> UpdateOk(expense_id,
                         SetFields(amount, category, sub_category, date))]

(* Faulty variant: no existence check, success whatever the id *)
DeleteExpenseCallUnchecked(rows, s, expense_id) ==
    [store |-> DeleteById(rows, expense_id), seq |-> s,
     result |-> DeleteOk(expense_id)]

DeleteExpenseCall(rows, s, expense_id) ==
    IF SelectById(rows, expense_id) = {}
    THEN [store |-> rows, seq |-> s, result |-> NotFound("delete", expense_id)]
    ELSE [store |-> DeleteById(rows, expense_id), seq |-> s,
          result |-> DeleteOk(expense_id)]

SummarizingExpensesCall(rows, s, start_date, end_date) ==
    [store |-> rows, seq |-> s,
     result |-> [status |-> "success", action |-> "summary",
                 start_date |-> start_date, end_date |-> end_date,
                 total_expense |->
                     PyOr(SqlSum({r \in rows :
                                    Between(r.date, start_date, end_date)}), 0)]]

-----------------------------------------------------------------------------
(* Initial state: init_db on a fresh database file, no call made yet *)

Init ==
    /\ store = {}
    /\ seq = 0
    /\ issued = {}
    /\ deleted = {}
    /\ pc = [p \in Procs |-> "idle"]
    /\ req = [p \in Procs |-> NoResult]
    /\ res = [p \in Procs |-> NoResult]

-----------------------------------------------------------------------------
(* One caller at a time: each call runs to completion *)

Returned(call) ==
    /\ store' = call.store
    /\ seq' = call.seq
    /\ issued' = IF call.result.action = "add"
                 THEN issued \cup {call.result.expense_id} ELSE issued
    /\ deleted' = IF call.result.action = "delete" /\ call.result.status = "success"
                  THEN deleted \cup {call.result.expense_id} ELSE deleted
    /\ UNCHANGED <<pc, req, res>>

AddExpense ==
    \E amount \in Amounts, category \in Categories, date \in Dates,
       sub_category \in SubCategories, now \in Times :
        /\ NextRowid(store, seq) <= MaxId
        /\ Returned(AddExpenseCall(store, seq, amount, category, date,
                                   sub_category, now))

ListingExpenses ==
    \E call \in ListingExpensesCall(store, seq) : Returned(call)

UpdateExpense ==
    \E expense_id \in Ids, amount \in Opt(Amounts), category \in Opt(Categories),
       sub_category \in Opt(SubCategories), date \in Opt(Dates) :
        Returned(UpdateExpenseCall(store, seq, expense_id, amount, category,
                                   sub_category, date))

DeleteExpense ==
    \E expense_id \in Ids : Returned(DeleteExpenseCall(store, seq, expense_id))

SummarizingExpenses ==
    \E start_date \in QueryDates, end_date \in QueryDates :
        Returned(SummarizingExpensesCall(store, seq, start_date, end_date))

Next ==
    \/ AddExpense
    \/ ListingExpenses
    \/ UpdateExpense
    \/ DeleteExpense
    \/ SummarizingExpenses

Spec == Init /\ [][Next]_vars

-----------------------------------------------------------------------------
(* Concurrent callers: every SQL statement is one step, and a call that has  *)
(* run its SELECT waits at "update" or "delete" for its second statement.    *)
(* The callers here add rows that differ in amount only and update amount    *)
(* only.                                                                     *)

Reply(p, r) ==
    /\ res' = [res EXCEPT ![p] = r]
    /\ pc' = [pc EXCEPT ![p] = "idle"]

AddStep(p) ==
    /\ pc[p] = "idle"
    /\ \E amount \in Amounts :
        LET call == AddExpenseCall(store, seq, amount, "food", <<2>>, "", 1) IN
        /\ call.result.expense_id <= MaxId
        /\ store' = call.store
        /\ seq' = call.seq
        /\ issued' = issued \cup {call.result.expense_id}
        /\ Reply(p, call.result)
        /\ UNCHANGED <<deleted, req>>

UpdateSelect(p) ==
    /\ pc[p] = "idle"
    /\ \E expense_id \in Ids, amount \in Opt(Amounts) :
        IF SelectById(store, expense_id) = {}
        THEN /\ Reply(p, NotFound("update", expense_id))
             /\ UNCHANGED req
        ELSE IF SetFields(amount, {}, {}, {}) = <<>>
        THEN /\ Reply(p, NoFields)
             /\ UNCHANGED req
        ELSE /\ pc' = [pc EXCEPT ![p] = "update"]
             /\ req' = [req EXCEPT ![p] =
                           [expense_id |-> expense_id, amount |-> amount]]
             /\ UNCHANGED res
    /\ UNCHANGED <<store, seq, issued, deleted>>

UpdateWrite(p) ==
    /\ pc[p] = "update"
    /\ store' = UpdateById(store, req[p].expense_id, req[p].amount, {}, {}, {})
    /\ Reply(p, UpdateOk(req[p].expense_id, SetFields(req[p].amount, {}, {}, {})))
    /\ UNCHANGED <<seq, issued, deleted, req>>

DeleteSelect(p) ==
    /\ pc[p] = "idle"
    /\ \E expense_id \in Ids :
        IF SelectById(store, expense_id) = {}
        THEN /\ Reply(p, NotFound("delete", expense_id))
             /\ UNCHANGED req
        ELSE /\ pc' = [pc EXCEPT ![p] = "delete"]
             /\ req' = [req EXCEPT ![p] = [expense_id |-> expense_id]]
             /\ UNCHANGED res
    /\ UNCHANGED <<store, seq, issued, deleted>>

DeleteWrite(p) ==
    /\ pc[p] = "delete"
    /\ store' = DeleteById(store, req[p].expense_id)
    /\ deleted' = deleted \cup {req[p].expense_id}
    /\ Reply(p, DeleteOk(req[p].expense_id))
    /\ UNCHANGED <<seq, issued, req>>

NextConc ==
    \E p \in Procs :
        \/ AddStep(p)
        \/ UpdateSelect(p)
        \/ UpdateWrite(p)
        \/ DeleteSelect(p)
        \/ DeleteWrite(p)

SpecConc == Init /\ [][NextConc]_vars

-----------------------------------------------------------------------------
(* Vocabulary of the properties, stated without the operators of the model *)

Min2(a, b) == IF a <= b THEN a ELSE b

(* a <= b in the order of strings: equal up to the shorter length and a not  *)
(* longer, or smaller at the first position where they differ                *)
LexLE(a, b) ==
    \/ /\ Len(a) <= Len(b)
       /\ \A k \in 1..Len(a) : a[k] = b[k]
    \/ \E k \in 1..Min2(Len(a), Len(b)) :
          /\ a[k] < b[k]
          /\ \A j \in 1..(k - 1) : a[j] = b[j]

(* the sum of amount over a set of rows, value by value *)
TotalOf(rows) ==
    Cardinality({r \in rows : r.amount = 1})
    - Cardinality({r \in rows : r.amount = -1})

InRange(rows, lo, hi) == {r \in rows : LexLE(lo, r.date) /\ LexLE(r.date, hi)}

HasId(rows, id) == \E r \in rows : r.id = id

IsNotFound(r, id) == r.status = "error" /\ r.message = NotFoundMessage(id)

AmountsKnown == \A r \in store : r.amount \in {-1, 1}

-----------------------------------------------------------------------------
(* C1: for every table content and every (start_date, end_date),            *)
(* summarizing_expenses returns status success with total_expense equal to  *)
(* the sum of amount over exactly the rows with start_date <= date <=       *)
(* end_date in string order, both ends included; with no row in the range   *)
(* (start_date > end_date and the empty table included) the total is 0 and  *)
(* the status is still success. The call leaves the table as it was.        *)
C1_SummaryIsInclusiveRangeSum ==
    /\ AmountsKnown
    /\ \A start_date \in QueryDates, end_date \in QueryDates :
        LET call == SummarizingExpensesCall(store, seq, start_date, end_date) IN
        /\ call.result.status = "success"
        /\ call.result.total_expense = TotalOf(InRange(store, start_date, end_date))
        /\ InRange(store, start_date, end_date) = {} => call.result.total_expense = 0
        /\ call.store = store

C1_Witness ==
    \E start_date \in QueryDates, end_date \in QueryDates :
        /\ \E r \in store : r.date = end_date /\ r.amount = 1
        /\ \E r \in store : ~LexLE(r.date, end_date)
        /\ start_date # end_date
        /\ SummarizingExpensesCall(store, seq, start_date, end_date)
               .result.total_expense = 1
        /\ SummarizingExpensesCall(store, seq, end_date, start_date)
               .result.total_expense = 0

(* C2: a successful update_expense(id, ...) sets exactly the provided       *)
(* fields of row id to the given values, leaves the other fields of that    *)
(* row and every other row as they were, and keeps the set of ids.          *)
C2_UpdateSetsExactlyProvidedFields ==
    \A id \in Ids, amount \in Opt(Amounts), category \in Opt(Categories),
       sub_category \in Opt(SubCategories), date \in Opt(Dates) :
        LET call == UpdateExpenseCall(store, seq, id, amount, category,
                                      sub_category, date) IN
        call.result.status = "success" =>
            /\ {r.id : r \in call.store} = {r.id : r \in store}
            /\ Cardinality(call.store) = Cardinality(store)
            /\ \A r \in store : r.id # id => r \in call.store
            /\ \A r \in store : r.id = id =>
                 \E n \in call.store :
                    /\ n.id = id
                    /\ n.created_at = r.created_at
                    /\ n.amount = (IF amount = {} THEN r.amount ELSE Val(amount))
                    /\ n.category =
                         (IF category = {} THEN r.category ELSE Val(category))
                    /\ n.sub_category =
                         (IF sub_category = {} THEN r.sub_category
                          ELSE Val(sub_category))
                    /\ n.date = (IF date = {} THEN r.date ELSE Val(date))

C2_Witness ==
    \E r \in store, o \in store :
        /\ r.id # o.id
        /\ r.amount = 1 /\ r.sub_category = "gas" /\ r.category = "food"
        /\ LET call == UpdateExpenseCall(store, seq, r.id, {-1}, {}, {""}, {}) IN
           /\ call.result.status = "success"
           /\ call.result.updated_fields = <<"amount = ?", "sub_category = ?">>
           /\ o \in call.store
           /\ [r EXCEPT !.amount = -1, !.sub_category = ""] \in call.store

(* C3 as claimed: for every id, whether or not a row has it, update_expense *)
(* with all four optional fields absent fails with "No fields provided to   *)
(* update" and leaves the table as it was.                                  *)
C3_NoFieldsWhateverTheId ==
    \A id \in Ids :
        LET call == UpdateExpenseCall(store, seq, id, {}, {}, {}, {}) IN
        /\ call.result.status = "error"
        /\ call.result.message = NoFieldsMessage
        /\ call.store = store

(* C3 as amended: update_expense with all four optional fields absent       *)
(* returns status error and leaves the table as it was; the message is "No  *)
(* fields provided to update" when a row with the id exists and "Expense    *)
(* <id> not found" when none does.                                          *)
C3_NoFieldsIsAnError ==
    \A id \in Ids :
        LET call == UpdateExpenseCall(store, seq, id, {}, {}, {}, {}) IN
        /\ call.result.status = "error"
        /\ call.result.action = "update"
        /\ call.result.message =
              (IF HasId(store, id) THEN NoFieldsMessage ELSE NotFoundMessage(id))
        /\ call.store = store
        /\ call.seq = seq

C3_Witness ==
    \E id \in Ids, other \in Ids :
        /\ HasId(store, id)
        /\ ~HasId(store, other)
        /\ UpdateExpenseCall(store, seq, id, {}, {}, {}, {}).result = NoFields
        /\ UpdateExpenseCall(store, seq, other, {}, {}, {}, {}).result
              = NotFound("update", other)

(* C4: when no row has the id, update_expense(id, ...) and                  *)
(* delete_expense(id) each return status error with "Expense <id> not       *)
(* found" and leave the table as it was; when a row has the id, neither     *)
(* returns "not found".                                                     *)
C4_NotFoundIffAbsent ==
    \A id \in Ids :
        LET del == DeleteExpenseCall(store, seq, id) IN
        /\ IF HasId(store, id)
           THEN ~IsNotFound(del.result, id)
           ELSE /\ IsNotFound(del.result, id)
                /\ del.result.action = "delete"
                /\ del.store = store
        /\ \A amount \in Opt(Amounts), category \in Opt(Categories),
              sub_category \in Opt(SubCategories), date \in Opt(Dates) :
            LET upd == UpdateExpenseCall(store, seq, id, amount, category,
                                         sub_category, date) IN
            IF HasId(store, id)
            THEN ~IsNotFound(upd.result, id)
            ELSE /\ IsNotFound(upd.result, id)
                 /\ upd.result.action = "update"
                 /\ upd.store = store

C4_Witness ==
    \E id \in Ids, gone \in deleted :
        /\ HasId(store, id)
        /\ ~HasId(store, gone)
        /\ IsNotFound(DeleteExpenseCall(store, seq, gone).result, gone)
        /\ IsNotFound(UpdateExpenseCall(store, seq, gone, {1}, {}, {}, {}).result,
                      gone)
        /\ DeleteExpenseCall(store, seq, id).result.status = "success"

(* C5: once delete_expense(id) has returned success, no later               *)
(* listing_expenses result holds a record with that id, whatever adds,      *)
(* updates and deletes follow; and a successful delete removes the row with *)
(* that id only, changing no other row.                                     *)
C5_DeletedStaysDeleted ==
    /\ \A id \in deleted :
          \A call \in ListingExpensesCall(store, seq) :
             \A k \in 1..Len(call.result.expenses) :
                call.result.expenses[k].id # id
    /\ \A id \in Ids :
          LET call == DeleteExpenseCall(store, seq, id) IN
          call.result.status = "success" =>
              /\ ~HasId(call.store, id)
              /\ call.store \subseteq store
              /\ \A r \in store : r.id # id => r \in call.store

C5_Witness ==
    \E gone \in deleted, r \in store :
        /\ r.id > gone
        /\ seq = MaxId
        /\ \A call \in ListingExpensesCall(store, seq) :
              /\ call.result.count = 1
              /\ call.result.expenses[1] = r

(* C6: add_expense returns an id strictly greater than every id an earlier  *)
(* add returned, also after rows were updated or deleted, so no id is used  *)
(* twice; and no two rows of the table share an id.                         *)
C6_IdsUniqueAndIncreasing ==
    /\ \A r \in store, o \in store : r.id = o.id => r = o
    /\ \A r \in store : r.id \in issued
    /\ \A amount \in Amounts, category \in Categories, date \in Dates,
          sub_category \in SubCategories, now \in Times :
          LET call == AddExpenseCall(store, seq, amount, category, date,
                                     sub_category, now) IN
          /\ \A id \in issued : call.result.expense_id > id
          /\ \A r \in store : call.result.expense_id > r.id
          /\ Cardinality(call.store) = Cardinality(store) + 1

C6_Witness ==
    /\ Cardinality(issued) >= 2
    /\ \E id \in deleted : \A other \in issued : other <= id
    /\ store # {}

(* C7: listing_expenses returns every row of the table exactly once, with   *)
(* count the number of rows (N after N adds and no delete), and for any two *)
(* consecutive records returned the earlier one's date is greater than or   *)
(* equal to the later one's.                                                *)
C7_ListingIsAllRowsByDateDescending ==
    /\ ListingExpensesCall(store, seq) # {}
    /\ \A call \in ListingExpensesCall(store, seq) :
        LET list == call.result.expenses IN
        /\ call.result.status = "success"
        /\ call.result.count = Cardinality(store)
        /\ Len(list) = call.result.count
        /\ deleted = {} => call.result.count = Cardinality(issued)
        /\ \A r \in store : Cardinality({k \in 1..Len(list) : list[k] = r}) = 1
        /\ \A k \in 1..Len(list) : list[k] \in store
        /\ \A k \in 1..(Len(list) - 1) : LexLE(list[k + 1].date, list[k].date)
        /\ call.store = store

C7_Witness ==
    /\ Cardinality(store) = 2
    /\ deleted = {}
    /\ \E call \in ListingExpensesCall(store, seq) :
          /\ call.result.count = 2
          /\ call.result.expenses[1].id = 2
          /\ call.result.expenses[1].date = <<2>>
          /\ call.result.expenses[2].id = 1
          /\ call.result.expenses[2].date = <<1, 0>>

(* C8: after add_expense(amount, category, date, sub_category) returns      *)
(* success with expense_id i, the next listing_expenses holds exactly one   *)
(* record with id i; its amount, category, sub_category and date are the    *)
(* inputs as given (the case of category kept) and its created_at is the    *)
(* time of the call; the count is one more than before the add and every    *)
(* row stored before is unchanged.                                          *)
C8_AddThenList ==
    NextRowid(store, seq) <= MaxId =>
    \A amount \in Amounts, category \in Categories, date \in Dates,
       sub_category \in SubCategories, now \in Times :
        LET add == AddExpenseCall(store, seq, amount, category, date,
                                  sub_category, now)
            i == add.result.expense_id
        IN
        /\ add.result.status = "success"
        /\ add.result.amount = amount /\ add.result.category = category
        /\ add.result.sub_category = sub_category /\ add.result.date = date
        /\ \A r \in store : r \in add.store
        /\ \A call \in ListingExpensesCall(add.store, add.seq) :
            LET list == call.result.expenses
                at == {k \in 1..Len(list) : list[k].id = i}
            IN
            /\ Cardinality(at) = 1
            /\ \A k \in at :
                 /\ list[k].amount = amount
                 /\ list[k].category = category
                 /\ list[k].sub_category = sub_category
                 /\ list[k].date = date
                 /\ list[k].created_at = now
                 /\ list[k].created_at \in Times
            /\ \A before \in ListingExpensesCall(store, seq) :
                 call.result.count = before.result.count + 1

C8_Witness ==
    /\ NextRowid(store, seq) <= MaxId
    /\ store # {}
    /\ LET add == AddExpenseCall(store, seq, -1, "Food", <<1, 0>>, "gas", 2) IN
       \E call \in ListingExpensesCall(add.store, add.seq) :
          /\ call.result.count = 2
          /\ \E k \in 1..2 :
                call.result.expenses[k] =
                    [id |-> add.result.expense_id, amount |-> -1,
                     category |-> "Food", sub_category |-> "gas",
                     date |-> <<1, 0>>, created_at |-> 2]

(* C9: while a row exists, its id and the created_at written at insert stay *)
(* the same: in every step (an add, update, delete, listing or summary,     *)
(* with any arguments) a row whose id is in the table before and after has  *)
(* the created_at it had, and every row that the step's delete did not      *)
(* report deleted is still there under its id with its created_at.          *)
C9_CreatedAtAndIdImmutable ==
    [][/\ \A r \in store : \A n \in store' :
             n.id = r.id => n.created_at = r.created_at
       /\ \A r \in store :
             r.id \notin (deleted' \ deleted) =>
                \E n \in store' : n.id = r.id /\ n.created_at = r.created_at
      ]_vars

C9_Witness ==
    \E r \in store, o \in store :
        /\ r.id < o.id
        /\ r.created_at = 1
        /\ o.created_at = 2
        /\ UpdateExpenseCall(store, seq, r.id, {-1}, {"Food"}, {"gas"}, {<<2>>})
              .store
           = (store \ {r}) \cup
                {[id |-> r.id, amount |-> -1, category |-> "Food",
                  sub_category |-> "gas", date |-> <<2>>, created_at |-> 1]}

(* C10: under any interleaving of concurrent calls, each call's SELECT and  *)
(* its DELETE or UPDATE being separate steps, a success result is truthful: *)
(* for each id at most one delete_expense call ever returns success, and    *)
(* update_expense never returns success for an id whose row is already      *)
(* removed when its UPDATE statement is applied.                            *)
C10_SuccessIsTruthful ==
    [][\A p \in Procs :
          /\ (pc[p] = "delete" /\ pc'[p] = "idle" /\ res'[p].status = "success")
                => req[p].expense_id \notin deleted
          /\ (pc[p] = "update" /\ pc'[p] = "idle" /\ res'[p].status = "success")
                => HasId(store, req[p].expense_id)
      ]_vars

====
